---- MODULE Spec2Model ----
(***************************************************************************)
(* flip_pancakes.py: the greedy flip/reduce loop (fix_stack), the batch    *)
(* reader (process_input_data_stream) and main's dispatch and error        *)
(* handling.  A str is a sequence of one-character strings.                *)
(***************************************************************************)
EXTENDS Integers, Sequences, FiniteSets, TLC

\* ------------------------------------------------------------------ bounds
\* Longest --fix argument.
MaxLen == 6
\* Longest raw line of the batch stream, its line end not counted.
MaxLineLen == 2
\* Largest declared count N on the first line of the batch stream.
MaxCount == 2
\* Largest number M of lines after the count line.
MaxLines == 3
\* Cap of flip_count, reached only by a run that would never end; a legal
\* stack of length n needs at most n flips.
MaxFlipCount == MaxLen + 2

\* Characters a --fix argument is drawn from.
Chars == {"+", "-", "x", "\n"}
\* Characters a raw line is drawn from (the line end is appended on read).
LineChars == {"+", "-", "x", " "}
\* What str.strip() removes.
Whitespace == {" ", "\n"}

SeqsUpTo(S, n) == UNION {[1..k -> S] : k \in 0..n}

Range(s) == {s[i] : i \in 1..Len(s)}

Min(a, b) == IF a <= b THEN a ELSE b

\* ------------------------------------------------------------ pure helpers
\* The value standing for a raised CharacterError inside a str under
\* construction.
CharacterError == "CharacterError"

RECURSIVE LeadingRun(_, _)
LeadingRun(S, s) ==
  IF s # <<>> /\ Head(s) \in S THEN 1 + LeadingRun(S, Tail(s)) ELSE 0

\* A faulty variant of FIRST_DOWN_ITEMS: the pattern ^(\-), which matches one item.
FIRST_DOWN_ITEMS_one(items) == SubSeq(items, 1, Min(1, LeadingRun({"-"}, items)))

\* ^(\-+) : the matched group, <<>> when there is no match.
FIRST_DOWN_ITEMS(items) == SubSeq(items, 1, LeadingRun({"-"}, items))

\* A faulty variant of FIRST_UP_ITEMS: the pattern ^(\+), which matches one item.
FIRST_UP_ITEMS_one(items) == SubSeq(items, 1, Min(1, LeadingRun({"+"}, items)))

\* ^(\++) : the matched group, <<>> when there is no match.
FIRST_UP_ITEMS(items) == SubSeq(items, 1, LeadingRun({"+"}, items))

\* ^[\-\+]*$ under re.search: "$" matches at the end of the str and also
\* just before a newline that is the last character.
LEGAL_STACK(items) ==
  LET j == LeadingRun({"-", "+"}, items)
  IN  \/ j = Len(items)
      \/ j = Len(items) - 1 /\ items[Len(items)] = "\n"

\* A faulty variant of split_items: the second part starts one item late.
split_items_late(num, items) ==
  <<SubSeq(items, 1, Min(num, Len(items))),
    SubSeq(items, Min(num, Len(items)) + 2, Len(items))>>

split_items(num, items) ==
  <<SubSeq(items, 1, Min(num, Len(items))),
    SubSeq(items, Min(num, Len(items)) + 1, Len(items))>>

flip_char(char) ==
  IF char = "+" THEN "-"
  ELSE IF char = "-" THEN "+"
  ELSE CharacterError

RECURSIVE flip_chars(_)
flip_chars(items) ==
  IF items = <<>> THEN <<>>
  ELSE <<flip_char(Head(items))>> \o flip_chars(Tail(items))

RECURSIVE reverse_items(_)
reverse_items(items) ==
  IF items = <<>> THEN <<>>
  ELSE Append(reverse_items(Tail(items)), Head(items))

\* A faulty variant of stack_flip: the part is reversed and its items are not
\* flipped.
stack_flip_no_flip_chars(index, items) ==
  LET parts == split_items(index, items)
  IN  reverse_items(parts[1]) \o parts[2]

stack_flip(index, items) ==
  LET parts == split_items(index, items)
      flipped_part1 == flip_chars(reverse_items(parts[1]))
  IN  flipped_part1 \o parts[2]

\* Whether stack_flip(index, items) raises instead of returning.
stack_flip_raises(index, items) ==
  CharacterError \in Range(stack_flip(index, items))

\* items[0] raises IndexError on the empty str.
first_down_raises(items) == items = <<>>

\* A faulty variant of first_down: it looks at the last item.
first_down_last(items) == items[Len(items)] = "-"

first_down(items) == items[1] = "-"

\* A faulty variant of count_down_items: every DOWN item is counted, not the
\* leading run.
count_down_items_all(items) ==
  Cardinality({i \in 1..Len(items) : items[i] = "-"})

count_down_items(items) ==
  LET match == FIRST_DOWN_ITEMS(items)
  IN  IF match # <<>> THEN Len(match) ELSE 0

count_up_items(items) ==
  LET match == FIRST_UP_ITEMS(items)
  IN  IF match # <<>> THEN Len(match) ELSE 0

all_up(up_count, items) == Len(items) = up_count

RECURSIVE lstrip(_)
lstrip(s) == IF s # <<>> /\ Head(s) \in Whitespace THEN lstrip(Tail(s)) ELSE s

RECURSIVE rstrip(_)
rstrip(s) ==
  IF s # <<>> /\ s[Len(s)] \in Whitespace
  THEN rstrip(SubSeq(s, 1, Len(s) - 1))
  ELSE s

strip(s) == rstrip(lstrip(s))

\* ------------------------------------------------------------------- state
VARIABLES
  mode,        \* which of --experiments, --fix, --data main dispatches on
  fix,         \* opts.fix
  count,       \* process_input_data_stream: the declared count
  nlines,      \* number of lines of the stream after the count line
  nread,       \* lines the for loop has taken from the stream
  case,        \* process_input_data_stream: case
  stack,       \* the argument of the current fix_stack call
  verbose,     \* fix_stack: verbose
  items,       \* fix_stack: items
  flip_count,  \* fix_stack: flip_count
  finished,    \* fix_stack: finished
  up_count,    \* fix_stack: up_count
  down_count,  \* fix_stack: down_count
  pc,          \* the statement to run next
  exc,         \* the exception in flight, "none" when there is none
  out,         \* what was printed, one entry per line
  stderr,      \* what was written to the error stream
  exit_code,   \* the exit code, -1 while the process runs
  flips,       \* history: the prefix lengths the current call has flipped
  step2,       \* history: times the current call ran the flip of line 208
  script,      \* first_experiments: the statements still to run
  seen,        \* history: the stacks the batch has passed to fix_stack
  alt,         \* an arbitrary chain of stack_flip from the fixed stack
  alt_n        \* the number of flips in that chain

vars == <<mode, fix, count, nlines, nread, case, stack, verbose, items,
          flip_count, finished, up_count, down_count, pc, exc, out, stderr,
          exit_code, flips, step2, seen, script, alt, alt_n>>

data_vars == <<count, nlines, nread, case, seen>>
locals == <<flip_count, finished, up_count, down_count>>
io_vars == <<out, stderr, exit_code>>
alt_vars == <<alt, alt_n>>
rest == <<script, alt, alt_n>>

Init ==
  /\ mode \in {"experiments", "fix", "data"}
  /\ fix \in IF mode = "fix" THEN SeqsUpTo(Chars, MaxLen) ELSE {<<>>}
  /\ count \in IF mode = "data" THEN 0..MaxCount ELSE {0}
  /\ nlines \in IF mode = "data" THEN 0..MaxLines ELSE {0}
  /\ nread = 0
  /\ case = 0
  /\ stack = <<>>
  /\ verbose = TRUE
  /\ items = <<>>
  /\ flip_count = 0
  /\ finished = FALSE
  /\ up_count = 0
  /\ down_count = 0
  /\ pc = "main"
  /\ exc = "none"
  /\ out = <<>>
  /\ stderr = "none"
  /\ exit_code = -1
  /\ flips = <<>>
  /\ step2 = 0
  /\ seen = <<>>
  /\ script = <<>>
  /\ alt = <<>>
  /\ alt_n = 0


\* ---------------------------------------------------------- printed lines
Entry(kind, a, b, text) == [kind |-> kind, a |-> a, b |-> b, text |-> text]

\* print(items)
Line(text) == Entry("line", 0, 0, text)
\* print()
Blank == Entry("line", 0, 0, <<>>)
\* print('  {0}'.format(opts.fix))
Echo(text) == Entry("echo", 0, 0, text)
\* print('{0} '.format(n), end='') followed by flip_and_print's print(items)
Step(n, text) == Entry("step", n, 0, text)
\* print('{0} '.format(n), end='') whose flip_and_print raised
Partial(n) == Entry("partial", n, 0, <<>>)
\* print('Flips: {0}'.format(flip_count))
Flips(n) == Entry("flips", n, 0, <<>>)
\* print('Case #{0}: {1}'.format(case, flip_count))
Case(i, n) == Entry("case", i, n, <<>>)

\* ------------------------------------------------------- first_experiments
Stmt(op, k, text) == [op |-> op, k |-> k, text |-> text]
\* items = '...'; print(items)
Show(text) == Stmt("show", 0, text)
\* items = flip_and_print(k, items)
Flip(k) == Stmt("flip", k, <<>>)
\* print()
Skip == Stmt("skip", 0, <<>>)

\* The statements of first_experiments, in order.
first_experiments ==
  <<Show(<<"-", "-", "+", "-", "-", "+">>), Flip(2), Flip(3), Flip(5), Skip,
    Show(<<"-", "-", "+", "+", "-", "+">>), Flip(2), Flip(4), Flip(5), Skip,
    Show(<<"-", "-", "-", "-", "+", "-">>), Flip(4), Flip(5), Flip(6), Skip,
    Show(<<"-", "+", "-", "+", "-", "+">>), Flip(1), Flip(2), Flip(3),
    Flip(4), Flip(5), Skip>>

\* -------------------------------------------------------------------- main
\* if opts.experiments: first_experiments() is entered.
main_experiments ==
  /\ pc = "main"
  /\ mode = "experiments"
  /\ script' = first_experiments
  /\ pc' = "experiments"
  /\ UNCHANGED <<mode, fix, data_vars, stack, verbose, items, locals, exc,
                 io_vars, flips, step2, alt_vars>>

\* The next statement of first_experiments; after the last one main ends.
experiment_step ==
  /\ pc = "experiments"
  /\ IF script = <<>>
     THEN /\ pc' = "exit"
          /\ exit_code' = 0
          /\ UNCHANGED <<items, out, exc, script>>
     ELSE LET stmt == Head(script)
          IN  /\ script' = Tail(script)
              /\ UNCHANGED exit_code
              /\ IF stmt.op = "flip" /\ stack_flip_raises(stmt.k, items)
                 THEN /\ exc' = "CharacterError"
                      /\ pc' = "raised"
                      /\ UNCHANGED <<items, out>>
                 ELSE /\ items' = CASE stmt.op = "show" -> stmt.text
                                    [] stmt.op = "flip" ->
                                         stack_flip(stmt.k, items)
                                    [] OTHER -> items
                      /\ out' = Append(out, IF stmt.op = "skip" THEN Blank
                                            ELSE Line(items'))
                      /\ UNCHANGED <<pc, exc>>
  /\ UNCHANGED <<mode, fix, data_vars, stack, verbose, locals, stderr, flips,
                 step2, alt_vars>>

\* elif opts.fix: the empty str is false, and main then ends.
main_fix ==
  /\ pc = "main"
  /\ mode = "fix"
  /\ IF fix = <<>>
     THEN /\ pc' = "exit"
          /\ exit_code' = 0
          /\ UNCHANGED <<out, stack, items, alt>>
     ELSE /\ out' = Append(out, Echo(fix))
          /\ stack' = fix
          /\ items' = fix
          /\ alt' = fix
          /\ pc' = "fix_198"
          /\ UNCHANGED exit_code
  /\ UNCHANGED <<mode, fix, data_vars, verbose, locals, exc, stderr, flips,
                 step2, script, alt_n>>

\* elif opts.data: process_input_data_stream() up to the for statement; the
\* count line is already parsed into count.
main_data ==
  /\ pc = "main"
  /\ mode = "data"
  /\ case' = 0
  /\ pc' = "data_243"
  /\ UNCHANGED <<mode, fix, count, nlines, nread, seen, stack, verbose,
                 items, locals, exc, io_vars, flips, step2, rest>>

\* print('Flips: ...') and the end of main.
main_print_flips ==
  /\ pc = "main_263"
  /\ out' = Append(out, Flips(flip_count))
  /\ pc' = "exit"
  /\ exit_code' = 0
  /\ UNCHANGED <<mode, fix, data_vars, stack, verbose, items, locals, exc,
                 stderr, flips, step2, rest>>

\* A faulty variant of main_except: the handler writes the message and does not
\* call sys.exit(1).
main_except_no_exit ==
  /\ pc = "raised"
  /\ exc = "CharacterError"
  /\ stderr' = "There was a character error"
  /\ exit_code' = 0
  /\ pc' = "exit"
  /\ UNCHANGED <<mode, fix, data_vars, stack, verbose, items, locals, exc,
                 out, flips, step2, rest>>

\* except CharacterError as msg
main_except ==
  /\ pc = "raised"
  /\ exc = "CharacterError"
  /\ stderr' = "There was a character error"
  /\ exit_code' = 1
  /\ pc' = "exit"
  /\ UNCHANGED <<mode, fix, data_vars, stack, verbose, items, locals, exc,
                 out, flips, step2, rest>>

\* Any other exception leaves main: the interpreter writes the traceback
\* and exits with 1.
main_uncaught ==
  /\ pc = "raised"
  /\ exc # "CharacterError"
  /\ stderr' = "Traceback"
  /\ exit_code' = 1
  /\ pc' = "exit"
  /\ UNCHANGED <<mode, fix, data_vars, stack, verbose, items, locals, exc,
                 out, flips, step2, rest>>


\* --------------------------------------------------------------- fix_stack
\* A flip of fix_stack: the print of the prefix length, flip_and_print and
\* flip_count += 1; control goes to statement `next`.
flip_step(index, next) ==
  IF stack_flip_raises(index, items)
  THEN /\ exc' = "CharacterError"
       /\ pc' = "raised"
       /\ out' = IF verbose THEN Append(out, Partial(index)) ELSE out
       /\ UNCHANGED <<items, flip_count, flips>>
  ELSE /\ items' = stack_flip(index, items)
       /\ out' = IF verbose THEN Append(out, Step(index, items')) ELSE out
       /\ flip_count' = flip_count + 1
       /\ flips' = Append(flips, index)
       /\ pc' = next
       /\ UNCHANGED exc

\* match = LEGAL_STACK.search(items); if not match: raise CharacterError
fix_stack_validate ==
  /\ pc = "fix_198"
  /\ IF ~LEGAL_STACK(items)
     THEN exc' = "CharacterError" /\ pc' = "raised"
     ELSE pc' = "fix_202" /\ UNCHANGED exc
  /\ UNCHANGED <<mode, fix, data_vars, stack, verbose, items, locals,
                 io_vars, flips, step2, rest>>

\* flip_count = 0; finished = False; if first_down(items):
fix_stack_first_down ==
  /\ pc = "fix_202"
  /\ flip_count' = 0
  /\ finished' = FALSE
  /\ IF first_down_raises(items)
     THEN exc' = "IndexError" /\ pc' = "raised"
     ELSE /\ pc' = IF first_down(items) THEN "fix_205" ELSE "fix_211"
          /\ UNCHANGED exc
  /\ UNCHANGED <<mode, fix, data_vars, stack, verbose, items, up_count,
                 down_count, io_vars, flips, step2, rest>>

\* The body of `if first_down(items)`: the flip of the leading DOWN run.
fix_stack_step2 ==
  /\ pc = "fix_205"
  /\ down_count' = count_down_items(items)
  /\ flip_step(down_count', "fix_211")
  /\ step2' = step2 + 1
  /\ UNCHANGED <<mode, fix, data_vars, stack, verbose, finished, up_count,
                 stderr, exit_code, rest>>

\* up_count = count_up_items(items); finished = all_up(up_count, items)
fix_stack_count ==
  /\ pc = "fix_211"
  /\ up_count' = count_up_items(items)
  /\ finished' = all_up(up_count', items)
  /\ pc' = "fix_213"
  /\ UNCHANGED <<mode, fix, data_vars, stack, verbose, items, flip_count,
                 down_count, exc, io_vars, flips, step2, rest>>

\* while not finished:
fix_stack_while ==
  /\ pc = "fix_213"
  /\ pc' = IF ~finished THEN "fix_214" ELSE "fix_228"
  /\ UNCHANGED <<mode, fix, data_vars, stack, verbose, items, locals, exc,
                 io_vars, flips, step2, rest>>

\* The first half of the loop body: the flip of the leading UP run.
fix_stack_flip_up ==
  /\ pc = "fix_214"
  /\ flip_count < MaxFlipCount
  /\ flip_step(up_count, "fix_219")
  /\ UNCHANGED <<mode, fix, data_vars, stack, verbose, finished, up_count,
                 down_count, stderr, exit_code, step2, rest>>

\* The second half: the flip of the new leading DOWN run.
fix_stack_flip_down ==
  /\ pc = "fix_219"
  /\ down_count' = count_down_items(items)
  /\ flip_step(down_count', "fix_225")
  /\ UNCHANGED <<mode, fix, data_vars, stack, verbose, finished, up_count,
                 stderr, exit_code, step2, rest>>

\* The end of the loop body: up_count and finished again.
fix_stack_recount ==
  /\ pc = "fix_225"
  /\ up_count' = count_up_items(items)
  /\ finished' = all_up(up_count', items)
  /\ pc' = "fix_213"
  /\ UNCHANGED <<mode, fix, data_vars, stack, verbose, items, flip_count,
                 down_count, exc, io_vars, flips, step2, rest>>

\* return flip_count, to the caller's next statement.
fix_stack_return ==
  /\ pc = "fix_228"
  /\ pc' = IF mode = "fix" THEN "main_263" ELSE "data_250"
  /\ UNCHANGED <<mode, fix, data_vars, stack, verbose, items, locals, exc,
                 io_vars, flips, step2, rest>>

\* ----------------------------------------------- process_input_data_stream
\* The stream is exhausted: the for loop, the function and main end.
data_eof ==
  /\ pc = "data_243"
  /\ nread = nlines
  /\ pc' = "exit"
  /\ exit_code' = 0
  /\ UNCHANGED <<mode, fix, data_vars, stack, verbose, items, locals, exc,
                 out, stderr, flips, step2, rest>>

\* A faulty variant of exhausted: the comparison is >=.
exhausted_early(case_, count_) == case_ >= count_

\* if case > count:
exhausted(case_, count_) == case_ > count_

\* for stack_raw in sys.stdin: case += 1; if case > count: sys.exit(0);
\* stack = stack_raw.strip(); fix_stack(stack, verbose=False) is entered.
data_next_line(raw) ==
  /\ pc = "data_243"
  /\ nread < nlines
  /\ nread' = nread + 1
  /\ case' = case + 1
  /\ IF exhausted(case', count)
     THEN /\ pc' = "exit"
          /\ exit_code' = 0
          /\ UNCHANGED <<stack, verbose, items, locals, flips, step2, seen>>
     ELSE /\ stack' = strip(raw \o <<"\n">>)
          /\ seen' = Append(seen, stack')
          /\ items' = stack'
          /\ verbose' = FALSE
          /\ flip_count' = 0
          /\ finished' = FALSE
          /\ up_count' = 0
          /\ down_count' = 0
          /\ flips' = <<>>
          /\ step2' = 0
          /\ pc' = "fix_198"
          /\ UNCHANGED exit_code
  /\ UNCHANGED <<mode, fix, count, nlines, exc, out, stderr, rest>>

\* print('Case #{0}: {1}'.format(case, flip_count))
data_print_case ==
  /\ pc = "data_250"
  /\ out' = Append(out, Case(case, flip_count))
  /\ pc' = "data_243"
  /\ UNCHANGED <<mode, fix, data_vars, stack, verbose, items, locals, exc,
                 stderr, exit_code, flips, step2, rest>>

\* ------------------------------------------------- arbitrary flip chains
\* One more stack_flip, with any prefix length, on a chain that starts at
\* the stack fix_stack has just fixed.
alt_flip(k) ==
  /\ pc = "exit"
  /\ mode = "fix"
  /\ exc = "none"
  /\ alt # <<>>
  /\ alt_n < Len(alt)
  /\ ~stack_flip_raises(k, alt)
  /\ alt' = stack_flip(k, alt)
  /\ alt_n' = alt_n + 1
  /\ UNCHANGED <<mode, fix, data_vars, stack, verbose, items, locals, pc,
                 exc, io_vars, flips, step2, script>>

\* ---------------------------------------------------------- specifications
Next ==
  \/ main_experiments
  \/ experiment_step
  \/ main_fix
  \/ main_data
  \/ main_print_flips
  \/ main_except
  \/ main_uncaught
  \/ fix_stack_validate
  \/ fix_stack_first_down
  \/ fix_stack_step2
  \/ fix_stack_count
  \/ fix_stack_while
  \/ fix_stack_flip_up
  \/ fix_stack_flip_down
  \/ fix_stack_recount
  \/ fix_stack_return
  \/ data_eof
  \/ \E raw \in SeqsUpTo(LineChars, MaxLineLen) : data_next_line(raw)
  \/ data_print_case

Spec == Init /\ [][Next]_vars

\* The interpreter runs the next statement whenever there is one.
FairSpec == Spec /\ WF_vars(Next)

NextMin == Next \/ \E k \in 1..Len(alt) : alt_flip(k)

SpecMin == Init /\ [][NextMin]_vars


\* ------------------------------------------------------------- vocabulary
Legal(s) == \A i \in 1..Len(s) : s[i] \in {"+", "-"}
HasIllegal(s) == \E i \in 1..Len(s) : s[i] \notin {"+", "-"}
AllUp(s) == \A i \in 1..Len(s) : s[i] = "+"
AllDown(s) == \A i \in 1..Len(s) : s[i] = "-"
LegalStack(s) == s # <<>> /\ Legal(s)

IsPrefix(s, t) == Len(s) <= Len(t) /\ SubSeq(t, 1, Len(s)) = s

\* The statements of fix_stack.
FixPcs == {"fix_198", "fix_202", "fix_205", "fix_211", "fix_213", "fix_214",
           "fix_219", "fix_225", "fix_228"}
\* The positions p < Len(s) where s[p] differs from s[p+1], ascending, then
\* Len(s) when the last element is DOWN; from position p on.
RECURSIVE ChangePoints(_, _)
ChangePoints(s, p) ==
  IF p > Len(s) THEN <<>>
  ELSE (IF \/ p < Len(s) /\ s[p] # s[p + 1]
           \/ p = Len(s) /\ s[p] = "-"
        THEN <<p>> ELSE <<>>) \o ChangePoints(s, p + 1)

\* The stack that the flips ks, applied in turn, make of s.
RECURSIVE Replay(_, _)
Replay(ks, s) ==
  IF ks = <<>> THEN s ELSE Replay(Tail(ks), stack_flip(Head(ks), s))

Demo1 == <<"-", "-", "+", "-", "-", "+">>
\* The stacks the first scripted experiment prints after its three flips.
Demo1Trace == <<<<"+", "+", "+", "-", "-", "+">>,
                <<"-", "-", "-", "-", "-", "+">>,
                <<"+", "+", "+", "+", "+", "+">>>>

\* ------------------------------------------------------------------ claims
\* C1: a call of fix_stack on a non-empty stack of legal symbols ends: it
\* reaches its return statement with the working sequence all UP, of the
\* input's length, and a flip count that is a non-negative integer.
C1_Terminates ==
  (pc = "fix_198" /\ LegalStack(stack))
    ~> (/\ pc = "fix_228"
        /\ exc = "none"
        /\ AllUp(items)
        /\ Len(items) = Len(stack)
        /\ flip_count \in Nat)

C1_Witness ==
  /\ pc = "fix_228"
  /\ LegalStack(stack)
  /\ AllUp(items)
  /\ flip_count >= 4

\* C2 (as claimed): a stack with a character other than "+" and "-" never
\* gets past the validation of fix_stack: no flip is made, no count is
\* returned, and the call ends in CharacterError.
C2_IllegalRaisesBeforeFlip ==
  HasIllegal(stack) =>
    /\ pc \in {"fix_198", "raised", "exit"}
    /\ flips = <<>>
    /\ pc # "fix_198" => exc = "CharacterError"

\* C3: the prefix lengths fix_stack flips on a legal stack are, in order,
\* the positions where an element differs from its successor, then the
\* length when the last element is DOWN: strictly increasing, and 2, 3, 5
\* (count 3) for "--+--+", whose trace prints the stacks of the first
\* scripted experiment.
C3_PrefixLengths ==
  /\ (pc \in FixPcs /\ LegalStack(stack)) =>
       /\ IsPrefix(flips, ChangePoints(stack, 1))
       /\ \A i \in 1..(Len(flips) - 1) : flips[i] < flips[i + 1]
       /\ pc = "fix_228" =>
            /\ flips = ChangePoints(stack, 1)
            /\ flip_count = Len(flips)
       /\ (pc = "fix_228" /\ stack = Demo1) =>
            flips = <<2, 3, 5>> /\ flip_count = 3
  /\ (mode = "fix" /\ fix = Demo1 /\ pc = "exit") =>
       out = <<Echo(Demo1)>>
               \o [i \in 1..3 |-> Step(<<2, 3, 5>>[i], Demo1Trace[i])]
               \o <<Flips(3)>>
  /\ (mode = "experiments" /\ pc = "exit") =>
       SubSeq(out, 1, 5) = <<Line(Demo1)>>
                             \o [i \in 1..3 |-> Line(Demo1Trace[i])]
                             \o <<Blank>>

C3_Witness ==
  /\ pc = "fix_228"
  /\ stack = Demo1
  /\ flips = <<2, 3, 5>>

\* C4: on an all-UP stack fix_stack makes no flip, neither the one before
\* the loop nor one in the loop, and returns 0; every stack a call returns
\* from is such a stack.
C4_AllUpZero ==
  /\ (pc \in FixPcs /\ stack # <<>> /\ AllUp(stack)) =>
       /\ pc \notin {"fix_205", "fix_214", "fix_219", "fix_225"}
       /\ flips = <<>>
       /\ step2 = 0
       /\ flip_count = 0
       /\ items = stack
  /\ (pc = "fix_228" /\ LegalStack(stack)) => items # <<>> /\ AllUp(items)

C4_Witness ==
  /\ pc = "fix_228"
  /\ Len(stack) = 3
  /\ AllUp(stack)
  /\ flip_count = 0

\* C5: on an all-DOWN stack of length n fix_stack makes exactly one flip,
\* the one before the loop, with prefix length n; it yields the all-UP
\* stack, the loop body never runs, and the count returned is 1.
C5_AllDownOne ==
  (pc \in FixPcs /\ stack # <<>> /\ AllDown(stack)) =>
    /\ pc \notin {"fix_214", "fix_219", "fix_225"}
    /\ pc \in {"fix_198", "fix_202", "fix_205"} =>
         flips = <<>> /\ items = stack
    /\ pc \in {"fix_211", "fix_213", "fix_228"} =>
         /\ flips = <<Len(stack)>>
         /\ step2 = 1
         /\ flip_count = 1
         /\ Len(items) = Len(stack)
         /\ AllUp(items)

C5_Witness ==
  /\ pc = "fix_228"
  /\ Len(stack) = 3
  /\ AllDown(stack)
  /\ flip_count = 1


\* The case lines of the first n stacks the batch has fixed; a stack's
\* count is the number of its change points (C3).
CaseLines(n) == [i \in 1..n |-> Case(i, Len(ChangePoints(seen[i], 1)))]

\* C6: while every sequence handed to fix_stack is legal, the batch has
\* printed exactly the case lines of the sequences fixed so far, numbered
\* 1, 2, ... in input order, never more than min(N, M) of them; it ends
\* with exactly min(N, M) lines and exit code 0, also when lines are left.
C6_BatchOutput ==
  (mode = "data" /\ exc = "none") =>
    /\ Len(out) <= Min(count, nlines)
    /\ Len(out) <= Len(seen)
    /\ out = CaseLines(Len(out))
    /\ pc = "exit" =>
         /\ Len(out) = Min(count, nlines)
         /\ exit_code = 0

C6_Witness ==
  /\ mode = "data"
  /\ pc = "exit"
  /\ exit_code = 0
  /\ count = 1
  /\ nlines = 3
  /\ nread = 2
  /\ out = <<Case(1, 2)>>

\* C7: when the j-th sequence of a batch (j <= N) holds an illegal
\* character, fix_stack raises CharacterError on it; the output is, and
\* stays, exactly the case lines 1..j-1, and the run ends with the
\* diagnostic on the error stream and exit code 1.
C7_BatchAborts ==
  (mode = "data" /\ HasIllegal(stack)) =>
    /\ pc \in {"fix_198", "raised", "exit"}
    /\ case <= count
    /\ Len(seen) = case
    /\ out = CaseLines(case - 1)
    /\ pc # "fix_198" => exc = "CharacterError"
    /\ pc = "exit" =>
         /\ exit_code = 1
         /\ stderr = "There was a character error"

C7_Witness ==
  /\ mode = "data"
  /\ pc = "exit"
  /\ HasIllegal(stack)
  /\ case = 2
  /\ Len(out) = 1
  /\ exit_code = 1

\* C8 (as claimed): whatever the input, the only exception fix_stack ever
\* raises is CharacterError.
C8_SingleErrorKind == exc \in {"none", "CharacterError"}

\* C9: in a call on a legal stack of length n, the flip before the loop
\* runs at most once and before any other flip; at the loop condition the
\* working sequence has length n and begins with UP; every prefix length
\* flipped is in 1..n; a full iteration leaves a strictly longer leading
\* UP run; and the loop body runs at most n times.
C9_LoopInvariants ==
  (pc \in FixPcs /\ LegalStack(stack)) =>
    /\ step2 <= 1
    /\ pc \in {"fix_198", "fix_202", "fix_205"} => flips = <<>> /\ step2 = 0
    /\ pc = "fix_213" =>
         /\ Len(items) = Len(stack)
         /\ items[1] = "+"
         /\ up_count = count_up_items(items)
    /\ \A i \in 1..Len(flips) : flips[i] \in 1..Len(stack)
    /\ pc = "fix_225" => count_up_items(items) > up_count
    /\ (Len(flips) - step2 + 1) \div 2 <= Len(stack)

C9_Witness ==
  /\ pc = "fix_225"
  /\ LegalStack(stack)
  /\ step2 = 1
  /\ Len(flips) = 5

\* C10: the count fix_stack returns for a legal stack is the least number
\* of flips that make it all UP: its own flips are a chain of that length
\* from the stack to the all-UP stack, and no chain of stack_flip with
\* prefix lengths in 1..n gets there in fewer flips.
C10_GreedyIsMinimum ==
  (mode = "fix" /\ pc = "exit" /\ exc = "none" /\ fix # <<>>) =>
    /\ flip_count = Len(flips)
    /\ \A i \in 1..Len(flips) : flips[i] \in 1..Len(fix)
    /\ Replay(flips, fix) = items
    /\ Len(items) = Len(fix)
    /\ AllUp(items)
    /\ AllUp(alt) => alt_n >= flip_count

C10_Witness ==
  /\ mode = "fix"
  /\ pc = "exit"
  /\ flip_count = 5
  /\ alt_n = 5
  /\ AllUp(alt)

====
